---- MODULE Spec2Model ----
(***************************************************************************)
(* A model of adsb_proxy.py: a Flask application with one route, /adsb,   *)
(* whose handler relays one upstream GET (requests.get with timeout=5) to  *)
(* the inbound caller, and turns any exception of the call into a 500      *)
(* response.  Texts that the code builds character by character (the      *)
(* error body, the log line) are sequences of one-character strings.       *)
(***************************************************************************)
EXTENDS Integers, Sequences, FiniteSets, TLC

VARIABLES
    ADSB_LOL_URL,   \* the module global of line 10
    pc,             \* pc[i]: where the handling of inbound request i stands
    inbound,        \* inbound[i]: the query string request i arrived with
    outbound,       \* outbound[i]: the requests.get calls request i has issued
    r,              \* r[i]: the handler's local r (the upstream response)
    e,              \* e[i]: the handler's local e (the exception caught)
    sent,           \* sent[i]: the responses returned to the caller of request i
    stdout,         \* the lines printed to the process's standard output
    phase,          \* phase[i]: what the pending requests.get call waits for
    pieces,         \* pieces[i]: pieces of the response body received so far
    waited,         \* waited[i]: seconds spent in the current wait of the call
    elapsed         \* elapsed[i]: seconds since the call was issued (saturating)

vars == <<ADSB_LOL_URL, pc, inbound, outbound, r, e, sent, stdout,
          phase, pieces, waited, elapsed>>

clock == <<phase, pieces, waited, elapsed>>

----------------------------------------------------------------------------
(* Bounds of the model *)

\* inbound requests the server handles, concurrently
NumRequests == 2

\* pieces in which the upstream may deliver a response body
MaxPieces == 2

\* the value at which the ghost clock elapsed[i] stops counting
MaxElapsed == 8

\* inbound requests whose outbound call is followed second by second
NumTimed == 1

Min(a, b) == IF a < b THEN a ELSE b

Req == 1 .. NumRequests

TimedReq == 1 .. Min(NumTimed, NumRequests)

\* Python's None, for a local that is not bound
None == [none |-> TRUE]

\* no inbound request yet
NoRequest == "(none)"

----------------------------------------------------------------------------
(* Module level: lines 6-10 *)

\* DZ_LAT = 42.703153, in millionths of a degree
DZ_LAT == 42703153

\* DZ_LON = -87.958641, in millionths of a degree
DZ_LON == -87958641

Abs(n) == IF n < 0 THEN -n ELSE n

RECURSIVE PadDigits(_, _)
\* n as exactly width decimal digits, zeros in front
PadDigits(n, width) ==
    IF width = 0 THEN ""
    ELSE PadDigits(n \div 10, width - 1) \o ToString(n % 10)

RECURSIVE FracDigits(_, _)
\* the decimal places of a fraction of n / 10^width: trailing zeros dropped
\* but one place kept, the shortest text that reads back as the same float
FracDigits(n, width) ==
    IF width > 1 /\ n % 10 = 0 THEN FracDigits(n \div 10, width - 1)
    ELSE PadDigits(n, width)

\* what an f-string prints for a float given in millionths
FormatFloat(micro) ==
    (IF micro < 0 THEN "-" ELSE "")
        \o ToString(Abs(micro) \div 1000000)
        \o "."
        \o FracDigits(Abs(micro) % 1000000, 6)

\* the f-string of line 10, evaluated with lat and lon swapped
BuildURLSwapped ==
    "https://api.adsb.lol/v2/point/" \o FormatFloat(DZ_LON) \o "/"
        \o FormatFloat(DZ_LAT) \o "/20"

\* the f-string of line 10
BuildURL ==
    "https://api.adsb.lol/v2/point/" \o FormatFloat(DZ_LAT) \o "/"
        \o FormatFloat(DZ_LON) \o "/20"

\* timeout=5 of line 15, widened by a second
TIMEOUT_Longer == 5 + 1

\* timeout=5 of line 15, in seconds
TIMEOUT == 5

----------------------------------------------------------------------------
(* The environment: inbound requests and what the upstream may do *)

\* query strings an inbound GET /adsb may carry
Queries == {"", "lat=1&lon=2"}

BodyAc == <<"{", "\"", "a", "c", "\"", ":", "[", "]", "}">>

BodyRateLimited ==
    <<"{", "\"", "e", "r", "r", "o", "r", "\"", ":", "\"", "r", "a", "t",
      "e", " ", "l", "i", "m", "i", "t", "e", "d", "\"", "}">>

BodyHtml == <<"<", "p", ">">>

\* the responses a completed requests.get may return
UpstreamResponses ==
    { [status_code |-> 200, content |-> BodyAc,
       content_type |-> "application/json"],
      [status_code |-> 503, content |-> BodyRateLimited,
       content_type |-> "text/plain"],
      [status_code |-> 404, content |-> BodyHtml,
       content_type |-> "text/html"] }

MsgPlain == <<"t", "i", "m", "e", "d", " ", "o", "u", "t">>

MsgQuote == <<"N", "a", "m", "e", "(", "\"", "h", "\"", ")">>

MsgBackslash == <<"C", ":", "\\", "x">>

MsgNewline == <<"a", "\n", "b">>

\* the exceptions requests.get raises on a timeout
TimeoutErrors ==
    { [kind |-> "ConnectTimeout", args |-> <<MsgPlain>>],
      [kind |-> "ReadTimeout", args |-> <<MsgNewline>>] }

\* the exceptions requests.get raises for other failures
OtherErrors ==
    { [kind |-> "ConnectionError", args |-> <<MsgQuote>>],
      [kind |-> "SSLError", args |-> <<MsgBackslash>>],
      [kind |-> "ChunkedEncodingError", args |-> <<>>] }

UpstreamErrors == TimeoutErrors \cup OtherErrors

----------------------------------------------------------------------------
(* Python and library operations the handler uses *)

\* str(e) of an exception: "" with no argument, the argument with one
Str(exc) == IF exc.args = <<>> THEN <<>> ELSE exc.args[1]

Has(s, c) == \E k \in 1 .. Len(s) : s[k] = c

RECURSIVE EscapeRepr(_, _)
\* the body of repr(s) for a str s quoted with q
EscapeRepr(s, q) ==
    IF s = <<>> THEN <<>>
    ELSE (CASE Head(s) = "\\" -> <<"\\", "\\">>
            [] Head(s) = "\n" -> <<"\\", "n">>
            [] Head(s) = q -> <<"\\", q>>
            [] OTHER -> <<Head(s)>>) \o EscapeRepr(Tail(s), q)

\* repr(s) of a str: single quotes, unless s holds ' and no "
StrRepr(s) ==
    LET q == IF Has(s, "'") /\ ~Has(s, "\"") THEN "\"" ELSE "'"
    IN  <<q>> \o EscapeRepr(s, q) \o <<q>>

\* repr(e) of an exception: its class name and its arguments
Repr(exc) ==
    <<exc.kind, "(">>
        \o (IF exc.args = <<>> THEN <<>> ELSE StrRepr(exc.args[1]))
        \o <<")">>

\* flask.Response(data, status=..., mimetype=...)
Response(data, status, mimetype) ==
    [data |-> data, status |-> status,
     headers |-> {<<"Content-Type", mimetype>>}]

\* resp.headers[name] = value
SetHeader(resp, name, value) ==
    [resp EXCEPT !.headers =
        {h \in @ : h[1] # name} \cup {<<name, value>>}]

\* requests.get(url, timeout=t) called twice in a row
requests_get_twice(calls, url, t) ==
    calls \o << [method |-> "GET", url |-> url, timeout |-> t],
                [method |-> "GET", url |-> url, timeout |-> t] >>

\* requests.get(url, timeout=t): one more call on the record of calls
requests_get(calls, url, t) ==
    Append(calls, [method |-> "GET", url |-> url, timeout |-> t])

Label ==
    <<"A", "D", "S", "-", "B", " ", "p", "r", "o", "x", "y", " ", "e", "x",
      "c", "e", "p", "t", "i", "o", "n", ":">>

\* a print that writes the label and the value as two lines
WriteStdoutTwoLines(out, i) ==
    out \o << [by |-> i, text |-> Label],
              [by |-> i, text |-> Repr(e[i])] >>

\* print("ADS-B proxy exception:", repr(e)) of request i: one line
WriteStdout(out, i) ==
    Append(out, [by |-> i, text |-> Label \o <<" ">> \o Repr(e[i])])

EnvelopeHead ==
    <<"{", "\"", "e", "r", "r", "o", "r", "\"", ":", "\"", "A", "D", "S",
      "-", "B", " ", "p", "r", "o", "x", "y", " ", "e", "x", "c", "e", "p",
      "t", "i", "o", "n", "\"", ",", "\"", "d", "e", "t", "a", "i", "l",
      "\"", ":", "\"">>

EnvelopeTail == <<"\"", "}">>

\* '{"error":"ADS-B proxy exception","detail":"%s"}' % s
FormatEnvelope(s) == EnvelopeHead \o s \o EnvelopeTail

----------------------------------------------------------------------------
(* The handler adsb(), lines 12-33 *)

\* the success response built from the upstream's declared content type
RelayResponseDeclared(i) ==
    SetHeader(Response(r[i].content, r[i].status_code, r[i].content_type),
              "Access-Control-Allow-Origin", "*")

\* the success response built from a response shared by all requests
RelayResponseShared(i) ==
    LET j == CHOOSE k \in Req : r[k] # None /\ \A l \in Req : r[l] # None => k <= l
    IN  SetHeader(Response(r[j].content, r[j].status_code, "application/json"),
                  "Access-Control-Allow-Origin", "*")

\* lines 17-22: the response of the success path
RelayResponse(i) ==
    SetHeader(Response(r[i].content, r[i].status_code, "application/json"),
              "Access-Control-Allow-Origin", "*")

\* the failure response with status 502 and repr(e) as the detail
EnvelopeResponseRepr(i) ==
    SetHeader(Response(FormatEnvelope(Repr(e[i])), 502, "application/json"),
              "Access-Control-Allow-Origin", "*")

\* the failure response replaced by an earlier request's success response
EnvelopeResponseStale(i) ==
    IF \E j \in Req : pc[j] = "done" /\ r[j] # None
    THEN LET j == CHOOSE k \in Req : pc[k] = "done" /\ r[k] # None
         IN  sent[j][1]
    ELSE SetHeader(Response(FormatEnvelope(Str(e[i])), 500, "application/json"),
                   "Access-Control-Allow-Origin", "*")

\* lines 27-32: the response of the failure path
EnvelopeResponse(i) ==
    SetHeader(Response(FormatEnvelope(Str(e[i])), 500, "application/json"),
              "Access-Control-Allow-Origin", "*")

\* an except clause that names the timeouts only
CaughtTimeoutOnly(exc) == exc.kind \in {"ConnectTimeout", "ReadTimeout"}

\* the classes of requests.exceptions met here, all of them subclasses of
\* RequestException, hence of Exception
ExceptionSubclasses ==
    {"ConnectTimeout", "ReadTimeout", "ConnectionError", "SSLError",
     "ChunkedEncodingError"}

\* line 25: except Exception takes an exception of any subclass of Exception
Caught(exc) == exc.kind \in ExceptionSubclasses

Init ==
    /\ ADSB_LOL_URL = BuildURL
    /\ pc = [i \in Req |-> "idle"]
    /\ inbound = [i \in Req |-> NoRequest]
    /\ outbound = [i \in Req |-> <<>>]
    /\ r = [i \in Req |-> None]
    /\ e = [i \in Req |-> None]
    /\ sent = [i \in Req |-> <<>>]
    /\ stdout = <<>>
    /\ phase = [i \in Req |-> "none"]
    /\ pieces = [i \in Req |-> 0]
    /\ waited = [i \in Req |-> 0]
    /\ elapsed = [i \in Req |-> 0]

\* lines 12-15: GET /adsb?q arrives, the handler starts and calls requests.get
Arrive(i, q) ==
    /\ pc[i] = "idle"
    /\ pc' = [pc EXCEPT ![i] = "calling"]
    /\ inbound' = [inbound EXCEPT ![i] = q]
    /\ outbound' = [outbound EXCEPT ![i] = requests_get(@, ADSB_LOL_URL, TIMEOUT)]
    /\ phase' = [phase EXCEPT ![i] = "connect"]
    /\ UNCHANGED <<ADSB_LOL_URL, r, e, sent, stdout, pieces, waited, elapsed>>

\* line 15: requests.get returns the upstream's response u
GetReturns(i, u) ==
    /\ pc[i] = "calling"
    /\ pc' = [pc EXCEPT ![i] = "got"]
    /\ r' = [r EXCEPT ![i] = u]
    /\ phase' = [phase EXCEPT ![i] = "none"]
    /\ pieces' = [pieces EXCEPT ![i] = 0]
    /\ waited' = [waited EXCEPT ![i] = 0]
    /\ UNCHANGED <<ADSB_LOL_URL, inbound, outbound, e, sent, stdout, elapsed>>

\* line 15: requests.get raises x
GetRaises(i, x) ==
    /\ pc[i] = "calling"
    /\ pc' = [pc EXCEPT ![i] = "raised"]
    /\ e' = [e EXCEPT ![i] = x]
    /\ phase' = [phase EXCEPT ![i] = "none"]
    /\ pieces' = [pieces EXCEPT ![i] = 0]
    /\ waited' = [waited EXCEPT ![i] = 0]
    /\ UNCHANGED <<ADSB_LOL_URL, inbound, outbound, r, sent, stdout, elapsed>>

\* lines 17-23: the success path builds the response and returns it
ReturnRelay(i) ==
    /\ pc[i] = "got"
    /\ pc' = [pc EXCEPT ![i] = "done"]
    /\ sent' = [sent EXCEPT ![i] = Append(@, RelayResponse(i))]
    /\ UNCHANGED <<ADSB_LOL_URL, inbound, outbound, r, e, stdout, clock>>

\* lines 25-26: the except clause takes the exception and prints it; an
\* exception the clause does not name leaves the handler
HandleException(i) ==
    /\ pc[i] = "raised"
    /\ IF Caught(e[i])
       THEN /\ pc' = [pc EXCEPT ![i] = "printed"]
            /\ stdout' = WriteStdout(stdout, i)
       ELSE /\ pc' = [pc EXCEPT ![i] = "fault"]
            /\ UNCHANGED stdout
    /\ UNCHANGED <<ADSB_LOL_URL, inbound, outbound, r, e, sent, clock>>

\* lines 27-33: the failure path builds the 500 response and returns it
ReturnEnvelope(i) ==
    /\ pc[i] = "printed"
    /\ pc' = [pc EXCEPT ![i] = "done"]
    /\ sent' = [sent EXCEPT ![i] = Append(@, EnvelopeResponse(i))]
    /\ UNCHANGED <<ADSB_LOL_URL, inbound, outbound, r, e, stdout, clock>>

Next ==
    \/ \E i \in Req, q \in Queries : Arrive(i, q)
    \/ \E i \in Req, u \in UpstreamResponses : GetReturns(i, u)
    \/ \E i \in Req, x \in UpstreamErrors : GetRaises(i, x)
    \/ \E i \in Req : ReturnRelay(i)
    \/ \E i \in Req : HandleException(i)
    \/ \E i \in Req : ReturnEnvelope(i)

Spec == Init /\ [][Next]_vars

----------------------------------------------------------------------------
(* The requests.get call in time.  timeout=5 gives the call a connect      *)
(* timeout of 5 seconds and a read timeout of 5 seconds; the read timeout  *)
(* bounds each wait for data from the upstream, not the whole download.    *)

\* one second passes while the call of request i waits
Tick(i) ==
    /\ pc[i] = "calling"
    /\ waited[i] < TIMEOUT
    /\ waited' = [waited EXCEPT ![i] = @ + 1]
    /\ elapsed' = [elapsed EXCEPT ![i] = Min(@ + 1, MaxElapsed)]
    /\ UNCHANGED <<ADSB_LOL_URL, pc, inbound, outbound, r, e, sent, stdout,
                   phase, pieces>>

\* the connection to the upstream is established; the call waits for data
Connected(i) ==
    /\ pc[i] = "calling"
    /\ phase[i] = "connect"
    /\ waited[i] < TIMEOUT
    /\ phase' = [phase EXCEPT ![i] = "read"]
    /\ waited' = [waited EXCEPT ![i] = 0]
    /\ UNCHANGED <<ADSB_LOL_URL, pc, inbound, outbound, r, e, sent, stdout,
                   pieces, elapsed>>

\* a piece of the response arrives, not the last; the call waits for more
ReadPiece(i) ==
    /\ pc[i] = "calling"
    /\ phase[i] = "read"
    /\ waited[i] < TIMEOUT
    /\ pieces[i] < MaxPieces
    /\ pieces' = [pieces EXCEPT ![i] = @ + 1]
    /\ waited' = [waited EXCEPT ![i] = 0]
    /\ UNCHANGED <<ADSB_LOL_URL, pc, inbound, outbound, r, e, sent, stdout,
                   phase, elapsed>>

\* the last piece of the response arrives: requests.get returns u
ReadDone(i, u) ==
    /\ phase[i] = "read"
    /\ waited[i] < TIMEOUT
    /\ GetReturns(i, u)

\* the connect timeout expires: requests.get raises ConnectTimeout
ConnectTimedOut(i, x) ==
    /\ phase[i] = "connect"
    /\ waited[i] = TIMEOUT
    /\ x.kind = "ConnectTimeout"
    /\ GetRaises(i, x)

\* the read timeout expires: requests.get raises ReadTimeout
ReadTimedOut(i, x) ==
    /\ phase[i] = "read"
    /\ waited[i] = TIMEOUT
    /\ x.kind = "ReadTimeout"
    /\ GetRaises(i, x)

\* the call fails for another reason than a timeout
CallFails(i, x) ==
    /\ waited[i] < TIMEOUT
    /\ GetRaises(i, x)

TimedNext ==
    \/ \E i \in TimedReq, q \in Queries : Arrive(i, q)
    \/ \E i \in TimedReq : Tick(i)
    \/ \E i \in TimedReq : Connected(i)
    \/ \E i \in TimedReq : ReadPiece(i)
    \/ \E i \in TimedReq, u \in UpstreamResponses : ReadDone(i, u)
    \/ \E i \in TimedReq, x \in TimeoutErrors : ConnectTimedOut(i, x)
    \/ \E i \in TimedReq, x \in TimeoutErrors : ReadTimedOut(i, x)
    \/ \E i \in TimedReq, x \in OtherErrors : CallFails(i, x)
    \/ \E i \in TimedReq : ReturnRelay(i)
    \/ \E i \in TimedReq : HandleException(i)
    \/ \E i \in TimedReq : ReturnEnvelope(i)

TimedSpec == Init /\ [][TimedNext]_vars

\* a step of a request that has arrived: of its call or of its handler
Progress ==
    \/ \E i \in Req, u \in UpstreamResponses : GetReturns(i, u)
    \/ \E i \in Req, x \in UpstreamErrors : GetRaises(i, x)
    \/ \E i \in Req : ReturnRelay(i)
    \/ \E i \in Req : HandleException(i)
    \/ \E i \in Req : ReturnEnvelope(i)

\* a call that was issued returns or raises, and a handler whose call has
\* ended is run: the server does not stop while a request is in progress
FairSpec == Spec /\ WF_vars(Progress)

----------------------------------------------------------------------------
(* What a caller can tell about a body: JSON *)

JsonEscapes == {"\"", "\\", "/", "b", "f", "n", "r", "t"}

ControlChars == {"\n", "\r", "\t"}

RECURSIVE ScanString(_, _, _)
\* reads a JSON string whose opening quote precedes position k of s: the
\* position after its closing quote and the characters it holds
ScanString(s, k, acc) ==
    IF k > Len(s) THEN [ok |-> FALSE, next |-> k, val |-> acc]
    ELSE IF s[k] = "\"" THEN [ok |-> TRUE, next |-> k + 1, val |-> acc]
    ELSE IF s[k] = "\\"
         THEN IF k + 1 <= Len(s) /\ s[k + 1] \in JsonEscapes
              THEN ScanString(s, k + 2, acc \o <<"\\", s[k + 1]>>)
              ELSE [ok |-> FALSE, next |-> k, val |-> acc]
    ELSE IF s[k] \in ControlChars THEN [ok |-> FALSE, next |-> k, val |-> acc]
    ELSE ScanString(s, k + 1, Append(acc, s[k]))

\* reads a JSON string that starts at position k of s
ParseString(s, k) ==
    IF k <= Len(s) /\ s[k] = "\""
    THEN ScanString(s, k + 1, <<>>)
    ELSE [ok |-> FALSE, next |-> k, val |-> <<>>]

RECURSIVE ParseMembers(_, _, _)
\* reads "key":"value" members from position k of s up to the closing brace,
\* which must end s
ParseMembers(s, k, acc) ==
    LET key == ParseString(s, k)
        val == ParseString(s, key.next + 1)
        members == Append(acc, <<key.val, val.val>>)
    IN  IF ~key.ok \/ key.next > Len(s) \/ s[key.next] # ":" \/ ~val.ok
            \/ val.next > Len(s)
        THEN [ok |-> FALSE, members |-> acc]
        ELSE IF s[val.next] = "}"
             THEN [ok |-> val.next = Len(s), members |-> members]
        ELSE IF s[val.next] = ","
             THEN ParseMembers(s, val.next + 1, members)
        ELSE [ok |-> FALSE, members |-> acc]

\* reads s as a JSON object whose values are strings
ParseObject(s) ==
    IF Len(s) >= 2 /\ s[1] = "{"
    THEN IF s[2] = "}" THEN [ok |-> Len(s) = 2, members |-> <<>>]
         ELSE ParseMembers(s, 2, <<>>)
    ELSE [ok |-> FALSE, members |-> <<>>]

KeyError == <<"e", "r", "r", "o", "r">>

KeyDetail == <<"d", "e", "t", "a", "i", "l">>

----------------------------------------------------------------------------
(* The claims *)

JsonAndCors ==
    {<<"Content-Type", "application/json">>,
     <<"Access-Control-Allow-Origin", "*">>}

Succeeded(i) == pc[i] = "done" /\ r[i] # None

Failed(i) == pc[i] = "done" /\ e[i] # None

\* C1: when the outbound call completes with status S and body B, the caller
\* is sent status S, body B unchanged, content type application/json whatever
\* the upstream declared, and Access-Control-Allow-Origin: *.
C1_RelaysStatusAndBody ==
    \A i \in Req :
        Succeeded(i) =>
            sent[i] = << [data |-> r[i].content,
                          status |-> r[i].status_code,
                          headers |-> JsonAndCors] >>

\* a 503 whose upstream declared text/plain has been relayed
C1_Witness ==
    \E i \in Req :
        /\ Succeeded(i)
        /\ r[i].status_code = 503
        /\ r[i].content_type = "text/plain"
        /\ sent[i][1].status = 503
        /\ sent[i][1].data = BodyRateLimited

\* C2: when the outbound call raises, whatever the failure, the caller is
\* sent status 500, content type application/json, the CORS header and the
\* body {"error":"ADS-B proxy exception","detail":"<str(e)>"}.
C2_FailureEnvelope ==
    \A i \in Req :
        Failed(i) =>
            /\ Len(sent[i]) = 1
            /\ sent[i][1].status = 500
            /\ sent[i][1].headers = JsonAndCors
            /\ LET body == sent[i][1].data
                   n == Len(body)
                   detail == IF e[i].args = <<>> THEN <<>> ELSE e[i].args[1]
               IN  /\ n = Len(EnvelopeHead) + Len(detail) + 2
                   /\ SubSeq(body, 1, Len(EnvelopeHead)) = EnvelopeHead
                   /\ SubSeq(body, Len(EnvelopeHead) + 1, n - 2) = detail
                   /\ SubSeq(body, n - 1, n) = <<"\"", "}">>

\* two calls that failed in different ways have both been answered
C2_Witness ==
    \E i, j \in Req :
        /\ Failed(i) /\ e[i].kind = "ConnectTimeout"
        /\ Failed(j) /\ e[j].kind = "SSLError"
        /\ sent[i][1].status = 500
        /\ sent[j][1].status = 500

\* C3: every request ends in exactly one response, never in a fault, and the
\* response has the CORS header and the JSON content type whatever the
\* outcome of the outbound call.
C3_AlwaysOneResponse ==
    /\ [](\A i \in Req :
            /\ pc[i] # "fault"
            /\ Len(sent[i]) <= 1
            /\ pc[i] = "done" =>
                  /\ Len(sent[i]) = 1
                  /\ sent[i][1].headers = JsonAndCors)
    /\ \A i \in Req : (pc[i] = "calling") ~> (pc[i] = "done")

\* one request answered after a failure, another after an upstream 503
C3_Witness ==
    \E i, j \in Req :
        /\ Failed(i) /\ Len(sent[i]) = 1
        /\ Succeeded(j) /\ r[j].status_code = 503 /\ Len(sent[j]) = 1

\* C4: on every failure the 500 body is a well-formed JSON object with
\* exactly the keys "error" and "detail", and "detail" is not empty, for
\* every text of the error message.
C4_WellFormedEnvelope ==
    \A i \in Req :
        Failed(i) =>
            LET obj == ParseObject(sent[i][1].data)
            IN  /\ obj.ok
                /\ Len(obj.members) = 2
                /\ obj.members[1][1] = KeyError
                /\ obj.members[2][1] = KeyDetail
                /\ obj.members[2][2] # <<>>

\* C5: each inbound request causes exactly one outbound GET, never zero and
\* never more, also when the call fails or returns an error status.
C5_OneOutboundCall ==
    \A i \in Req :
        /\ Len(outbound[i]) = (IF pc[i] = "idle" THEN 0 ELSE 1)
        /\ \A k \in 1 .. Len(outbound[i]) : outbound[i][k].method = "GET"

\* a failed call and a call that returned 503, each one call and no more
C5_Witness ==
    \E i, j \in Req :
        /\ Failed(i) /\ Len(outbound[i]) = 1
        /\ Succeeded(j) /\ r[j].status_code = 503 /\ Len(outbound[j]) = 1

\* the response the handler gives for the outcome of one call, alone
ExpectedFor(u, x) ==
    IF u # None
    THEN [data |-> u.content, status |-> u.status_code, headers |-> JsonAndCors]
    ELSE [data |-> EnvelopeHead \o (IF x.args = <<>> THEN <<>> ELSE x.args[1])
                        \o <<"\"", "}">>,
          status |-> 500, headers |-> JsonAndCors]

\* C6: nothing is cached or carried between requests: every request makes
\* its own outbound call and its response is decided by the outcome of that
\* call alone, whatever the outcome of any other request.
C6_NoCarryOver ==
    \A i \in Req :
        pc[i] = "done" =>
            /\ Len(outbound[i]) = 1
            /\ r[i] = None \/ e[i] = None
            /\ r[i] # None => /\ sent[i][1].status = r[i].status_code
                              /\ sent[i][1].data = r[i].content
            /\ e[i] # None => /\ sent[i][1].status = 500
                              /\ SubSeq(sent[i][1].data, 1, Len(EnvelopeHead))
                                    = EnvelopeHead
            /\ \A j \in Req :
                (pc[j] = "done" /\ r[j] = r[i] /\ e[j] = e[i])
                    => sent[j] = sent[i]

\* a failure and a success side by side, each answered by its own outcome
C6_Witness ==
    \E i, j \in Req :
        /\ Failed(i) /\ sent[i][1].status = 500
        /\ Succeeded(j) /\ r[j].status_code = 200 /\ sent[j][1].status = 200
        /\ Len(outbound[i]) = 1 /\ Len(outbound[j]) = 1

ExpectedURL == "https://api.adsb.lol/v2/point/42.703153/-87.958641/20"

LinesBy(i) == {k \in 1 .. Len(stdout) : stdout[k].by = i}

\* C9: a request whose call fails writes exactly one log line, naming the
\* kind and the message, before its 500 response is returned; a request
\* whose call completes with any status writes none.
C9_LogOnlyOnFailure ==
    \A i \in Req :
        /\ r[i] # None => LinesBy(i) = {}
        /\ e[i] = None => LinesBy(i) = {}
        /\ pc[i] = "raised" => LinesBy(i) = {}
        /\ (e[i] # None /\ pc[i] \in {"printed", "done"}) =>
                /\ Cardinality(LinesBy(i)) = 1
                /\ \A k \in LinesBy(i) :
                    LET text == stdout[k].text
                        n == Len(Label)
                    IN  /\ SubSeq(text, 1, n) = Label
                        /\ text[n + 1] = " "
                        /\ text[n + 2] = e[i].kind
                        /\ text[n + 3] = "("
                        /\ text[Len(text)] = ")"
                        /\ e[i].args = <<MsgPlain>> =>
                              SubSeq(text, n + 4, Len(text) - 1)
                                  = <<"'">> \o MsgPlain \o <<"'">>

\* a failed request with its one line, beside a relayed 503 with none
C9_Witness ==
    \E i, j \in Req :
        /\ Failed(i) /\ Cardinality(LinesBy(i)) = 1
        /\ Succeeded(j) /\ r[j].status_code = 503 /\ LinesBy(j) = {}

\* C10: with requests handled concurrently, a call that is pending or fails
\* for one request neither delays nor changes the response of another: every
\* step of a request can be taken whatever the others are doing, and every
\* response is the one the request would get alone with the same outcome.
C10_NoInterference ==
    \A i \in Req :
        /\ pc[i] = "idle" => \A q \in Queries : ENABLED Arrive(i, q)
        /\ pc[i] = "calling" => \A u \in UpstreamResponses : ENABLED GetReturns(i, u)
        /\ pc[i] = "got" => ENABLED ReturnRelay(i)
        /\ pc[i] = "raised" => ENABLED HandleException(i)
        /\ pc[i] = "printed" => ENABLED ReturnEnvelope(i)
        /\ pc[i] = "done" => sent[i] = <<ExpectedFor(r[i], e[i])>>

\* one request answered with its own 200 while the call of another, which
\* arrived under a lower number, is still pending
C10_Witness ==
    \E i, j \in Req :
        /\ i < j
        /\ pc[i] = "calling"
        /\ Succeeded(j)
        /\ r[j].status_code = 200

====
